---- MODULE Spec2Model ----
(***************************************************************************)
(* CodexMonitor: the app-server session engine of src-tauri/src/lib.rs.    *)
(*                                                                         *)
(* A WorkspaceSession owns a child process, the write end of its stdin, a  *)
(* table of pending one-shot completions keyed by request id and an id     *)
(* counter.  A reader task per session dispatches the child's stdout       *)
(* lines.  Tauri commands reach sessions through the registry              *)
(* AppState.sessions, a tokio Mutex around a map.                          *)
(*                                                                         *)
(* The specifications share the session actions:                           *)
(*   Spec          the command layer (connect_workspace, remove_workspace, *)
(*                 start_thread, respond_to_server_request) over AppState; *)
(*   SessionSpec   one constructed session whose methods send_request,     *)
(*                 send_notification and send_response are called by       *)
(*                 concurrent tasks directly (the methods take &self of an *)
(*                 Arc-shared session);                                    *)
(*   ReaderSpec    that session with a child printing any JSON object;     *)
(*   ReplySpec     that session with a child answering what it receives;   *)
(*   RegistrySpec  add_workspace, connect_workspace and remove_workspace   *)
(*                 with room for a second session;                         *)
(*   ProbeSpec, PathSpec  connect_workspace on every installation of the   *)
(*                 codex binary and under every PATH, HOME and codex_bin;  *)
(*   FilesSpec     the file commands of shared/files_core.rs.              *)
(* FairSpec and FairSessionSpec add weak fairness on the steps the tokio   *)
(* runtime schedules (tasks, reader, timer); the child process and the     *)
(* arrival of new commands are not fair.                                   *)
(***************************************************************************)
EXTENDS Integers, Sequences, FiniteSets, TLC

\* ------------------------------------------------------------------ bounds
\* Sessions alive at a time, messages begun on one session of the command
\* layer, calls made on the shared session, lines printed by one child.
MaxSessions == 1
MaxMsgs == 4
MaxCalls == 2
MaxLines == 2

Workspaces == {"w1"}
Tasks == {"t1", "t2"}
\* The ids add_workspace can draw, and every id an entry can have.
NewIds == {"w2"}
EntryIds == Workspaces \cup NewIds
\* The session slots of a specification.
Slots == 1..MaxSessions
Ids == 1..MaxMsgs

\* No task: a free mutex.
Nobody == "none"

\* The pieces write_all hands the pipe for one line, the last ending in '\n'.
Pieces == <<"head", "tail">>

VARIABLES
  workspaces,   \* AppState.workspaces: the ids in the map
  sessions,     \* AppState.sessions: workspace id -> session (0: no entry)
  sessLock,     \* the task holding the AppState.sessions mutex (0: free)
  sess,         \* session -> WorkspaceSession, its child and its reader
  task,         \* task -> the command it runs and where it is
  env,          \* the process environment the file commands resolve roots in
  file          \* the file command in progress or last returned

vars == <<workspaces, sessions, sessLock, sess, task, env, file>>

\* The sessions there is room for.
Sess == DOMAIN sess

\* ------------------------------------------------------------- JSON values
NoId == -1
NoMsg == [ln |-> 0, k |-> "none", idk |-> "none", id |-> 0, m |-> FALSE, r |-> "none"]

\* An inbound stdout line: ln its position on the stream, k its text kind
\* (json, garbage, blank), idk/id its "id" member, m whether "method" is
\* present, r which of "result"/"error" is present.
Reply(n, i, r) == [ln |-> n, k |-> "json", idk |-> "u64", id |-> i, m |-> FALSE, r |-> r]
ServerRequest(n, i) == [ln |-> n, k |-> "json", idk |-> "u64", id |-> i, m |-> TRUE, r |-> "none"]
Notification(n) == [ln |-> n, k |-> "json", idk |-> "none", id |-> 0, m |-> TRUE, r |-> "none"]
\* A line that is not JSON, and a line of white space.
Garbage(n) == [ln |-> n, k |-> "garbage", idk |-> "none", id |-> 0, m |-> FALSE, r |-> "none"]
Blank(n) == [ln |-> n, k |-> "blank", idk |-> "none", id |-> 0, m |-> FALSE, r |-> "none"]
\* A line whose bytes are not UTF-8: next_line() returns Err for it.
Invalid(n) == [ln |-> n, k |-> "invalid", idk |-> "none", id |-> 0, m |-> FALSE, r |-> "none"]

\* What the child may print as its n-th line, next being the session's
\* next_id: a reply to an id in use or to the one not yet allocated.
ServerLines(n, next) ==
  {Reply(n, i, "result") : i \in {j \in Ids : j <= next}}
    \cup {Reply(n, 1, "error"), ServerRequest(n, 1), Notification(n),
          Garbage(n), Blank(n), Invalid(n)}

\* Every JSON object the child may print as its n-th line, by the members
\* the reader looks at: "id" an unsigned integer, absent, or another value
\* (a string, a negative or fractional number, null; id is then the number
\* it resembles), "method" present or not, "result", "error" or neither.
JsonLines(n, next) ==
  {[ln |-> n, k |-> "json", idk |-> d, id |-> IF d = "none" THEN 0 ELSE i,
    m |-> m, r |-> r] :
     d \in {"u64", "none", "other"}, i \in {j \in Ids : j <= next}, m \in BOOLEAN,
     r \in {"none", "result", "error"}}

\* A reader that takes an id from any "id" member.
maybe_id_Lenient(v) == IF v.idk # "none" THEN v.id ELSE NoId

\* value.get("id").and_then(|id| id.as_u64())
maybe_id(v) == IF v.idk = "u64" THEN v.id ELSE NoId
\* value.get("method").is_some()
has_method(v) == v.m
\* value.get("result").is_some() || value.get("error").is_some()
has_result_or_error(v) == v.r # "none"

\* ------------------------------------------------------- the version probe
\* Text is a sequence of characters, " " being white space.  What a stream
\* of `codex --version` may hold: nothing, white space, a word, a word with
\* white space around it.
Texts(c) == {<<>>, <<" ">>, <<c>>, <<" ", c, " ">>}

\* What running `codex --version` does on this machine: the binary is not
\* found, cannot be run for another reason, does not finish in time, or
\* exits with a status and its two streams.
Installations ==
  [run : {"not_found", "io_error", "timeout"}, success : {FALSE},
   stdout : {<<>>}, stderr : {<<>>}]
    \cup [run : {"exit"}, success : BOOLEAN, stdout : Texts("v"), stderr : Texts("e")]

Working == [run |-> "exit", success |-> TRUE, stdout |-> <<"v">>, stderr |-> <<>>]

RECURSIVE trim_start(_)
trim_start(text) ==
  IF text # <<>> /\ Head(text) = " " THEN trim_start(Tail(text)) ELSE text

RECURSIVE trim_end(_)
trim_end(text) ==
  IF text # <<>> /\ text[Len(text)] = " "
  THEN trim_end(SubSeq(text, 1, Len(text) - 1)) ELSE text

\* str::trim
trim(text) == trim_end(trim_start(text))

\* Ok(..) and Err(..) of check_codex_installation: a message and the text
\* placed in it.
ProbeOk(version) ==
  [ok |-> TRUE, msg |-> IF version = <<>> THEN "None" ELSE "Some", text |-> version]
ProbeErr(msg, detail) == [ok |-> FALSE, msg |-> msg, text |-> detail]
NoProbe == [ok |-> FALSE, msg |-> "none", text |-> <<>>]

\* A probe that reports stdout ahead of stderr.
check_codex_installation_StdoutFirst(codex) ==
  IF codex.run = "timeout" THEN ProbeErr("Timed out while checking Codex CLI.", <<>>)
  ELSE IF codex.run = "not_found" THEN ProbeErr("Codex CLI not found.", <<>>)
  ELSE IF codex.run = "io_error" THEN ProbeErr("io error", <<>>)
  ELSE IF ~codex.success
  THEN LET detail == IF trim(codex.stdout) = <<>> THEN trim(codex.stderr)
                     ELSE trim(codex.stdout)
       IN IF detail = <<>> THEN ProbeErr("Codex CLI failed to start.", <<>>)
          ELSE ProbeErr("Codex CLI failed to start: {detail}.", detail)
  ELSE ProbeOk(trim(codex.stdout))

\* timeout(Duration::from_secs(5), command.output()) and what is made of the
\* output.
check_codex_installation(codex) ==
  IF codex.run = "timeout" THEN ProbeErr("Timed out while checking Codex CLI.", <<>>)
  ELSE IF codex.run = "not_found" THEN ProbeErr("Codex CLI not found.", <<>>)
  ELSE IF codex.run = "io_error" THEN ProbeErr("io error", <<>>)
  ELSE IF ~codex.success
  THEN LET detail == IF trim(codex.stderr) = <<>> THEN trim(codex.stdout)
                     ELSE trim(codex.stderr)
       IN IF detail = <<>> THEN ProbeErr("Codex CLI failed to start.", <<>>)
          ELSE ProbeErr("Codex CLI failed to start: {detail}.", detail)
  ELSE ProbeOk(trim(codex.stdout))

\* ------------------------------------------------------ build_codex_command
\* A string is a sequence of pieces, ":" or a run of other characters.
\* The values of PATH: env::var is Err when the variable is unset and when
\* its value is not Unicode; the child inherits the value either way.
PathValues ==
  [var : {"unset"}, text : {<<>>}]
    \cup [var : {"unicode"},
          text : {<<>>, <<"/usr/bin">>, <<"/x", ":", ":", "/usr/bin", ":">>,
                  <<":", "/sbin", ":", "/x", ":", "/x">>,
                  <<"/home/u/.cargo/bin", ":", "/bin">>}]
    \cup [var : {"not_unicode"}, text : {<<"/x", ":", "/nonunicode">>}]

\* entry.codex_bin: None, or Some of a text.
CodexBins ==
  [some : {FALSE}, text : {<<>>}] \cup [some : {TRUE}, text : Texts("c")]

\* The pieces of a value of HOME.
HomeText(home) == IF home = "/home:u" THEN <<"/home", ":", "u">> ELSE <<home>>

\* text.split(':')
RECURSIVE split(_)
split(text) ==
  IF \E i \in 1..Len(text) : text[i] = ":"
  THEN LET i == CHOOSE k \in 1..Len(text) :
                  text[k] = ":" /\ \A j \in 1..(k - 1) : text[j] # ":"
       IN <<SubSeq(text, 1, i - 1)>> \o split(SubSeq(text, i + 1, Len(text)))
  ELSE <<text>>

\* .filter(|value| !value.is_empty())
non_empty(field) == field # <<>>

\* paths.join(":")
RECURSIVE join(_)
join(paths) ==
  IF paths = <<>> THEN <<>>
  ELSE IF Len(paths) = 1 THEN paths[1]
  ELSE paths[1] \o <<":">> \o join(Tail(paths))

\* paths.contains(&extra)
contains(paths, extra) == \E i \in 1..Len(paths) : paths[i] = extra

\* for extra in extras { if !paths.contains(&extra) { paths.push(extra); } }
RECURSIVE push_extras(_, _)
push_extras(paths, extras) ==
  IF extras = <<>> THEN paths
  ELSE push_extras(IF contains(paths, Head(extras)) THEN paths
                   ELSE Append(paths, Head(extras)),
                   Tail(extras))

\* vec!["/opt/homebrew/bin", ..] and, if HOME is set, {home}/.local/bin and
\* {home}/.cargo/bin
extra_paths(home) ==
  << <<"/opt/homebrew/bin">>, <<"/usr/local/bin">>, <<"/usr/bin">>, <<"/bin">>,
     <<"/usr/sbin">>, <<"/sbin">> >>
    \o IF home = "unset" THEN <<>>
       ELSE << HomeText(home) \o <<"/.local/bin">>, HomeText(home) \o <<"/.cargo/bin">> >>

\* The PATH text made from the value path of PATH.
augmented_path(path, home) ==
  LET paths == SelectSeq(split(IF path.var = "unicode" THEN path.text ELSE <<>>),
                         non_empty)
  IN join(push_extras(paths, extra_paths(home)))

\* Command::new(bin), with command.env("PATH", ..) for the default binary.
NoCommand == [bin |-> <<>>, PATH |-> [var |-> "none", text |-> <<>>]]

build_codex_command(codex_bin) ==
  LET default_bin == IF codex_bin.some THEN trim(codex_bin.text) = <<>> ELSE TRUE
      bin == IF codex_bin.some /\ trim(codex_bin.text) # <<>> THEN codex_bin.text
             ELSE <<"codex">>
      text == augmented_path(env.PATH, env.HOME)
  IN
  [bin |-> bin,
   PATH |-> IF default_bin /\ text # <<>> THEN [var |-> "set", text |-> text]
            ELSE [var |-> "inherited", text |-> env.PATH.text]]

\* ---------------------------------------------------------------- sessions
NoSession ==
  [entry |-> "none", child |-> "none", stdinOpen |-> FALSE, stdinLock |-> Nobody,
   wire |-> <<>>, pending |-> {}, chan |-> [i \in Ids |-> NoMsg], next_id |-> 1,
   outq |-> <<>>, nlines |-> 0, reader |-> "none", events |-> <<>>,
   nmsg |-> 0, written |-> {}, returned |-> {}, outcome |-> "none",
   closed |-> FALSE, last |-> NoMsg, answered |-> {}]

\* Arc::new(WorkspaceSession { .. next_id: AtomicU64::new(1) }) over a child
\* just spawned with piped stdio, and the stdout reader task started.
NewSession(w) ==
  [NoSession EXCEPT !.entry = w, !.child = "running", !.stdinOpen = TRUE,
                    !.reader = "running", !.outcome = "handshake"]

\* probe: what the version probe of the task's connect returned; command: the
\* Command it was run with.
NoTask ==
  [pc |-> "idle", cmd |-> "none", call |-> "none", w |-> "none", s |-> 0,
   id |-> 0, msg |-> 0, off |-> 0, probe |-> NoProbe, command |-> NoCommand]

\* The receiver half of the one-shot for (s, id) is still held by a
\* send_request future that has not completed or been dropped.
RxAlive(s, id) ==
  \E t \in Tasks :
    /\ task[t].s = s /\ task[t].id = id /\ task[t].call = "send_request"
    /\ task[t].pc \in {"wm_write", "sr_await"}

\* ------------------------------------------------------- WorkspaceSession
\* A send_request that reads the counter without advancing it.
BeginRequest_Load(ss) == [ss EXCEPT !.nmsg = @ + 1]

\* let id = self.next_id.fetch_add(1, Ordering::SeqCst): the first statement
\* of send_request, run with the caller's synchronous code before it.
BeginRequest(ss) == [ss EXCEPT !.next_id = @ + 1, !.nmsg = @ + 1]
\* A call of write_message for a notification or a response begins.
BeginWrite(ss) == [ss EXCEPT !.nmsg = @ + 1]

\* self.pending.lock().await.insert(id, tx)
InsertPending(ss, id) == [ss EXCEPT !.pending = @ \cup {id}]

\* A send_request that writes its line first and registers the one-shot
\* afterwards.
send_request_insert_AfterWrite(t) ==
  LET s == task[t].s
      line == [k \in 1..Len(Pieces) |->
                 [n |-> task[t].msg, kind |-> task[t].call, id |-> task[t].id,
                  part |-> Pieces[k]]]
  IN
  /\ task[t].pc = "sr_insert"
  /\ IF task[t].off = 0
     THEN /\ sess[s].stdinOpen /\ sess[s].stdinLock = Nobody
          /\ sess' = [sess EXCEPT ![s].wire = @ \o line,
                                  ![s].written = @ \cup {task[t].msg}]
          /\ task' = [task EXCEPT ![t].off = 1]
     ELSE /\ sess' = [sess EXCEPT ![s] = InsertPending(@, task[t].id)]
          /\ task' = [task EXCEPT ![t].pc = "sr_await", ![t].off = 0]
  /\ UNCHANGED <<workspaces, sessions, sessLock, env, file>>

send_request_insert(t) ==
  LET s == task[t].s IN
  /\ task[t].pc = "sr_insert"
  /\ sess' = [sess EXCEPT ![s] = InsertPending(@, task[t].id)]
  /\ task' = [task EXCEPT ![t].pc = "wm_write"]
  /\ UNCHANGED <<workspaces, sessions, sessLock, env, file>>

\* write_message without the stdin mutex.
StdinFree_Unlocked(ss) == TRUE

\* let mut stdin = self.stdin.lock().await
StdinFree(ss) == ss.stdinLock = Nobody

\* An emit that puts the event ahead of those already delivered.
Emit_Front(ss, kind, v) ==
  [ss EXCEPT !.events = <<[kind |-> kind, ln |-> v.ln, id |-> maybe_id(v)]>> \o @]

\* app_handle_clone.emit("app-server-event", payload), the payload carrying
\* the message v (for codex/parseError, the raw line).
Emit(ss, kind, v) ==
  [ss EXCEPT !.events = Append(@, [kind |-> kind, ln |-> v.ln, id |-> maybe_id(v)])]

\* A handshake that goes from the initialize reply straight to the
\* codex/connected event and Ok(session), without the initialized notification.
Return_NoInitialized(t, ss, res) ==
  LET s == task[t].s IN
  IF task[t].cmd \in {"connect_workspace", "add_workspace"}
  THEN /\ sessLock' = sessLock
       /\ IF res # "ok"
          THEN /\ sess' = [sess EXCEPT ![s] = [ss EXCEPT !.outcome = res]]
               /\ task' = [task EXCEPT ![t] = NoTask]
          ELSE /\ sess' = [sess EXCEPT ![s] =
                             [Emit(ss, "connected", NoMsg) EXCEPT !.outcome = "ready"]]
               /\ task' = [task EXCEPT ![t].pc = IF task[t].cmd = "add_workspace"
                                                 THEN "aw_store" ELSE "cw_insert",
                                       ![t].call = "none",
                                       ![t].msg = 0, ![t].off = 0]
  ELSE /\ sess' = [sess EXCEPT ![s] = ss]
       /\ task' = [task EXCEPT ![t] = NoTask]
       /\ sessLock' = IF task[t].cmd = "session" THEN sessLock ELSE Nobody

\* The call of task t on its session returns res, the session being ss, and
\* the caller runs on to its next await: spawn_workspace_session goes from
\* init_response? to send_notification("initialized", None) and from there to
\* the codex/connected event and Ok(session); a command returns and drops its
\* sessions guard.
Return(t, ss, res) ==
  LET s == task[t].s IN
  IF task[t].cmd \in {"connect_workspace", "add_workspace"}
  THEN /\ sessLock' = sessLock
       /\ IF res # "ok"
          THEN /\ sess' = [sess EXCEPT ![s] =
                             [ss EXCEPT !.outcome = IF task[t].call = "send_request"
                                                    THEN res ELSE "err_initialized"]]
               /\ task' = [task EXCEPT ![t] = NoTask]
          ELSE IF task[t].call = "send_request"
          THEN /\ sess' = [sess EXCEPT ![s] = BeginWrite(ss)]
               /\ task' = [task EXCEPT ![t].pc = "wm_write",
                                       ![t].call = "send_notification",
                                       ![t].id = 0, ![t].msg = ss.nmsg + 1,
                                       ![t].off = 0]
          ELSE /\ sess' = [sess EXCEPT ![s] =
                             [Emit(ss, "connected", NoMsg) EXCEPT !.outcome = "ready"]]
               /\ task' = [task EXCEPT ![t].pc = IF task[t].cmd = "add_workspace"
                                                 THEN "aw_store" ELSE "cw_insert",
                                       ![t].call = "none",
                                       ![t].msg = 0, ![t].off = 0]
  ELSE /\ sess' = [sess EXCEPT ![s] = ss]
       /\ task' = [task EXCEPT ![t] = NoTask]
       /\ sessLock' = IF task[t].cmd = "session" THEN sessLock ELSE Nobody

\* A send_request that turns a reply with an "error" member into an Err.
Returned_ErrOnError(ss, id, res, v) ==
  [ss EXCEPT !.returned =
     @ \cup {[id |-> id, res |-> IF v.r = "error" THEN "err_reply" ELSE res,
              ln |-> v.ln, vid |-> v.id, r |-> v.r]}]

\* What send_request returned for the id it allocated.
Returned(ss, id, res, v) ==
  [ss EXCEPT !.returned =
     @ \cup {[id |-> id, res |-> res, ln |-> v.ln, vid |-> v.id, r |-> v.r]}]

\* The k-th piece of the line task t is writing.
Chunk(t, k) ==
  [n |-> task[t].msg, kind |-> task[t].call, id |-> task[t].id, part |-> Pieces[k]]

\* stdin.write_all(line.as_bytes()).await: one piece is taken by the pipe, or
\* the write fails because the read end is closed.  The first piece goes out
\* as the stdin mutex is taken; the guard is dropped when write_message
\* returns; send_request returns a write error at once ("?") and otherwise
\* goes on to rx.await.
write_message(t) ==
  LET s == task[t].s
      k == task[t].off + 1
      released == [sess[s] EXCEPT !.stdinLock = Nobody]
      done == [released EXCEPT !.wire = Append(@, Chunk(t, k)),
                               !.written = @ \cup {task[t].msg}]
  IN
  /\ task[t].pc = "wm_write"
  /\ IF k = 1 THEN StdinFree(sess[s]) ELSE TRUE
  /\ IF ~sess[s].stdinOpen
     THEN IF task[t].call = "send_request"
          THEN Return(t, Returned(released, task[t].id, "err_write", NoMsg), "err_write")
          ELSE Return(t, released, "err_write")
     ELSE IF k < Len(Pieces)
     THEN /\ sess' = [sess EXCEPT ![s].wire = Append(@, Chunk(t, k)),
                                  ![s].stdinLock = t]
          /\ task' = [task EXCEPT ![t].off = k]
          /\ sessLock' = sessLock
     ELSE IF task[t].call = "send_request"
     THEN /\ sess' = [sess EXCEPT ![s] = done]
          /\ task' = [task EXCEPT ![t].pc = "sr_await", ![t].off = 0]
          /\ sessLock' = sessLock
     ELSE Return(t, done, "ok")
  /\ UNCHANGED <<workspaces, sessions, env, file>>

\* rx.await.map_err(|_| "request canceled"): completes when a value was sent
\* or when the sender was dropped without one.
RxReady(ss, id) == ss.chan[id] # NoMsg \/ id \notin ss.pending

send_request_await(t) ==
  LET s == task[t].s
      id == task[t].id
      v == sess[s].chan[id]
      res == IF v # NoMsg THEN "ok" ELSE "err_canceled"
  IN
  /\ task[t].pc = "sr_await"
  /\ RxReady(sess[s], id)
  /\ Return(t, Returned([sess[s] EXCEPT !.chan[id] = NoMsg], id, res, v), res)
  /\ UNCHANGED <<workspaces, sessions, env, file>>

\* -------------------------------------------------- the stdout reader task
\* A reader that completes the oldest pending request whatever the reply's id.
Complete_Oldest(s, ss, id, v) ==
  IF ss.pending # {}
  THEN LET j == CHOOSE i \in ss.pending : \A k \in ss.pending : i <= k IN
       [ss EXCEPT !.pending = @ \ {j},
                  !.chan[j] = IF RxAlive(s, j) THEN v ELSE @]
  ELSE ss

\* value.get("result") of the message v: a JSON value of its own, with no
\* "id", "method" or "result" member.
ResultMember(v) ==
  [ln |-> v.ln, k |-> "json", idk |-> "none", id |-> 0, m |-> FALSE, r |-> "none"]

\* A reader that sends the caller the reply's result member only.
Complete_ResultMember(s, ss, id, v) ==
  IF id \in ss.pending
  THEN [ss EXCEPT !.pending = @ \ {id},
                  !.chan[id] = IF RxAlive(s, id) THEN ResultMember(v) ELSE @]
  ELSE ss

\* A reader that looks the sender up with get() and leaves the entry behind.
Complete_Get(s, ss, id, v) ==
  IF id \in ss.pending
  THEN [ss EXCEPT !.chan[id] = IF RxAlive(s, id) THEN v ELSE @]
  ELSE ss

\* A reader that hands every reply to the caller of its id, pending or not.
Complete_Resend(s, ss, id, v) ==
  [ss EXCEPT !.pending = @ \ {id},
             !.chan[id] = IF RxAlive(s, id) THEN v ELSE @]

\* if let Some(tx) = session_clone.pending.lock().await.remove(&id)
\*     { let _ = tx.send(value); }
Complete(s, ss, id, v) ==
  IF id \in ss.pending
  THEN [ss EXCEPT !.pending = @ \ {id},
                  !.chan[id] = IF RxAlive(s, id) THEN v ELSE @]
  ELSE ss

\* A reader that completes the pending request of any line that has an id.
Dispatch_IdFirst(s, ss, v) ==
  IF v.k = "blank" THEN ss
  ELSE IF v.k = "garbage" THEN Emit(ss, "parseError", v)
  ELSE IF maybe_id(v) # NoId THEN Complete(s, ss, maybe_id(v), v)
  ELSE IF has_method(v) THEN Emit(ss, "message", v)
  ELSE ss

\* A reader that, for a line with an id, looks for "method" before "result"
\* and "error".
Dispatch_MethodFirst(s, ss, v) ==
  IF v.k = "blank" THEN ss
  ELSE IF v.k = "garbage" THEN Emit(ss, "parseError", v)
  ELSE IF maybe_id(v) # NoId
  THEN IF has_method(v) THEN Emit(ss, "message", v)
       ELSE Complete(s, ss, maybe_id(v), v)
  ELSE IF has_method(v) THEN Emit(ss, "message", v)
  ELSE ss

\* The body of the reader loop for one line.
Dispatch(s, ss, v) ==
  IF v.k = "blank" THEN ss
  ELSE IF v.k = "garbage" THEN Emit(ss, "parseError", v)
  ELSE IF maybe_id(v) # NoId
  THEN IF has_result_or_error(v) THEN Complete(s, ss, maybe_id(v), v)
       ELSE IF has_method(v) THEN Emit(ss, "message", v)
       ELSE Complete(s, ss, maybe_id(v), v)
  ELSE IF has_method(v) THEN Emit(ss, "message", v)
  ELSE ss

\* The pipe is at end of file once the child is gone and its buffered
\* output has been read.
StdoutClosed(ss) == ss.child \in {"exited", "killed"} /\ ss.outq = <<>>

\* while let Ok(Some(line)) = lines.next_line().await { .. }: the loop runs
\* its body on Ok(Some(line)) and ends on Ok(None) and on Err, the task then
\* dropping the read end of the pipe.  last is the line taken last.
reader_step(s) ==
  /\ sess[s].reader = "running"
  /\ IF sess[s].outq # <<>>
     THEN IF Head(sess[s].outq).k = "invalid"
          THEN sess' = [sess EXCEPT ![s].reader = "done", ![s].outq = <<>>,
                                    ![s].last = Head(sess[s].outq)]
          ELSE sess' = [sess EXCEPT ![s] =
                          Dispatch(s, [@ EXCEPT !.outq = Tail(@), !.last = Head(sess[s].outq)],
                                   Head(sess[s].outq))]
     ELSE /\ StdoutClosed(sess[s])
          /\ sess' = [sess EXCEPT ![s].reader = "done"]
  /\ UNCHANGED <<workspaces, sessions, sessLock, task, env, file>>

\* --------------------------------------------------------------- the child
\* The child prints one more line on its stdout, the pipe holding one line
\* and its read end being open.
ChildPrint(s) ==
  /\ sess[s].child = "running"
  /\ sess[s].reader = "running"
  /\ sess[s].nlines < MaxLines
  /\ sess[s].outq = <<>>
  /\ \E v \in ServerLines(sess[s].nlines + 1, sess[s].next_id) :
       sess' = [sess EXCEPT ![s].outq = Append(@, v), ![s].nlines = @ + 1]
  /\ UNCHANGED <<workspaces, sessions, sessLock, task, env, file>>

\* The request with this id has reached the child: the end of its line is in
\* the pipe.
RequestOnWire(ss, id) ==
  \E k \in 1..Len(ss.wire) :
    /\ ss.wire[k].kind = "send_request" /\ ss.wire[k].id = id
    /\ ss.wire[k].part = Pieces[Len(Pieces)]

\* The child answers a request it has received and not answered yet with a
\* result; answered is the child's record of the ids it answered.
ChildReply(s) ==
  /\ sess[s].child = "running"
  /\ sess[s].reader = "running"
  /\ sess[s].nlines < MaxLines
  /\ sess[s].outq = <<>>
  /\ \E id \in Ids \ sess[s].answered :
       /\ RequestOnWire(sess[s], id)
       /\ sess' = [sess EXCEPT ![s].outq = Append(@, Reply(sess[s].nlines + 1, id, "result")),
                               ![s].nlines = @ + 1,
                               ![s].answered = @ \cup {id}]
  /\ UNCHANGED <<workspaces, sessions, sessLock, task, env, file>>

\* The child prints a JSON object, whatever its members.
ChildPrintJson(s) ==
  /\ sess[s].child = "running"
  /\ sess[s].reader = "running"
  /\ sess[s].nlines < MaxLines
  /\ sess[s].outq = <<>>
  /\ \E v \in JsonLines(sess[s].nlines + 1, sess[s].next_id) :
       sess' = [sess EXCEPT ![s].outq = Append(@, v), ![s].nlines = @ + 1]
  /\ UNCHANGED <<workspaces, sessions, sessLock, task, env, file>>

\* The child exits on its own: its ends of the pipes close.
ChildExit(s) ==
  /\ sess[s].child = "running"
  /\ sess' = [sess EXCEPT ![s].child = "exited", ![s].stdinOpen = FALSE]
  /\ UNCHANGED <<workspaces, sessions, sessLock, task, env, file>>

\* The child closes its stdin and keeps running.
ChildCloseStdin(s) ==
  /\ sess[s].child = "running"
  /\ sess[s].stdinOpen
  /\ sess' = [sess EXCEPT ![s].stdinOpen = FALSE]
  /\ UNCHANGED <<workspaces, sessions, sessLock, task, env, file>>

\* A kill that is never delivered.
Kill_Skipped(ss) == ss

\* child.kill().await: a no-op on a child that already exited.
Kill(ss) ==
  IF ss.child = "running"
  THEN [ss EXCEPT !.child = "killed", !.stdinOpen = FALSE]
  ELSE ss

\* ------------------------------------------------ spawn_workspace_session
\* The model's room for one more session.
FreeSlots == {s \in Sess : sess[s].child = "none"}

\* Fewer than room sessions exist or are about to be spawned.
Room(room) ==
  Cardinality(Sess \ FreeSlots) + Cardinality({u \in Tasks : task[u].pc = "sp_check"})
    < room

\* workspaces.get(&id).cloned().ok_or("workspace not found")?
connect_workspace(t, w) ==
  /\ task[t].pc = "idle"
  /\ Room(Cardinality(Sess))
  /\ task' = [task EXCEPT ![t] =
                IF w \in workspaces
                THEN [NoTask EXCEPT !.pc = "sp_check", !.cmd = "connect_workspace",
                                    !.w = w]
                ELSE NoTask]
  /\ UNCHANGED <<workspaces, sessions, sessLock, sess, env, file>>

\* --------------------------------------------------------------- add_workspace
\* Nothing refers to the id: Uuid::new_v4() has not returned it before.
Fresh(w) ==
  /\ w \notin workspaces
  /\ sessions[w] = 0
  /\ \A t \in Tasks : task[t].w # w
  /\ \A s \in Sess : sess[s].entry # w

\* let entry = WorkspaceEntry { id: Uuid::new_v4().to_string(), .. };
\* spawn_workspace_session(entry.clone(), app).await?
add_workspace(t) ==
  /\ task[t].pc = "idle"
  /\ Room(Cardinality(Sess))
  /\ \E w \in NewIds :
       /\ Fresh(w)
       /\ task' = [task EXCEPT ![t] =
                     [NoTask EXCEPT !.pc = "sp_check", !.cmd = "add_workspace", !.w = w]]
  /\ UNCHANGED <<workspaces, sessions, sessLock, sess, env, file>>

\* workspaces.insert(entry.id.clone(), entry.clone());
\* write_workspaces(&state.storage_path, &list)?
add_workspace_store(t) ==
  /\ task[t].pc = "aw_store"
  /\ workspaces' = workspaces \cup {task[t].w}
  /\ \E stored \in BOOLEAN :
       task' = [task EXCEPT ![t] = IF stored THEN [@ EXCEPT !.pc = "aw_insert"]
                                   ELSE NoTask]
  /\ UNCHANGED <<sessions, sessLock, sess, env, file>>

\* state.sessions.lock().await.insert(entry.id.clone(), session); Ok(..)
add_workspace_insert(t) ==
  /\ task[t].pc = "aw_insert"
  /\ sessLock = Nobody
  /\ sessions' = [sessions EXCEPT ![task[t].w] = task[t].s]
  /\ task' = [task EXCEPT ![t] = NoTask]
  /\ UNCHANGED <<workspaces, sessLock, sess, env, file>>

\* check_codex_installation, command.spawn(), the session, the reader tasks
\* and the first statement of send_request("initialize", ..).
spawn_workspace_session(t) ==
  LET new == CHOOSE s \in FreeSlots : \A r \in FreeSlots : s <= r
      probe == check_codex_installation(env.codex)
      command == build_codex_command(env.codex_bin)
  IN
  /\ task[t].pc = "sp_check"
  /\ IF ~probe.ok
     THEN /\ task' = [task EXCEPT ![t] = [NoTask EXCEPT !.probe = probe,
                                                        !.command = command]]
          /\ UNCHANGED sess
     ELSE \E outcome \in {"spawn_failed", "spawned"} :
       IF outcome = "spawned"
       THEN /\ sess' = [sess EXCEPT ![new] = BeginRequest(NewSession(task[t].w))]
            /\ task' = [task EXCEPT ![t].pc = "sr_insert", ![t].s = new,
                                    ![t].call = "send_request", ![t].id = 1,
                                    ![t].msg = 1, ![t].probe = probe,
                                    ![t].command = command]
       ELSE /\ task' = [task EXCEPT ![t] = NoTask]
            /\ UNCHANGED sess
  /\ UNCHANGED <<workspaces, sessions, sessLock, env, file>>

\* The future inside timeout(Duration::from_secs(15), ..) can still be
\* pending at each of its await points.
InitPending(t) ==
  LET ss == sess[task[t].s] IN
  \/ task[t].pc \in {"sr_insert", "wm_write"}
  \/ task[t].pc = "sr_await" /\ ~RxReady(ss, task[t].id)

\* Err(_) of the timeout: the send_request future is dropped (with its
\* receiver and any stdin guard it holds).
initialize_timeout(t) ==
  LET s == task[t].s IN
  /\ task[t].cmd \in {"connect_workspace", "add_workspace"}
  /\ task[t].call = "send_request"
  /\ InitPending(t)
  /\ sess' = [sess EXCEPT ![s].stdinLock = IF @ = t THEN Nobody ELSE @]
  /\ task' = [task EXCEPT ![t].pc = "hs_kill", ![t].call = "none", ![t].off = 0]
  /\ UNCHANGED <<workspaces, sessions, sessLock, env, file>>

\* let mut child = session.child.lock().await; let _ = child.kill().await;
\* return Err("Codex app-server did not respond to initialize. ..")
spawn_timeout_kill(t) ==
  LET s == task[t].s IN
  /\ task[t].pc = "hs_kill"
  /\ sess' = [sess EXCEPT ![s] = [Kill(@) EXCEPT !.outcome = "err_timeout"]]
  /\ task' = [task EXCEPT ![t] = NoTask]
  /\ UNCHANGED <<workspaces, sessions, sessLock, env, file>>

\* state.sessions.lock().await.insert(entry.id, session); Ok(())
connect_workspace_insert(t) ==
  /\ task[t].pc = "cw_insert"
  /\ sessLock = Nobody
  /\ sessions' = [sessions EXCEPT ![task[t].w] = task[t].s]
  /\ task' = [task EXCEPT ![t] = NoTask]
  /\ UNCHANGED <<workspaces, sessLock, sess, env, file>>

\* The holders of the session's Arc: the registry, the stdout reader task
\* (session_clone) and the commands that hold it in a local.
Held(s) ==
  \/ \E w \in EntryIds : sessions[w] = s
  \/ sess[s].reader = "running"
  \/ \E t \in Tasks : task[t].s = s

\* The last Arc is dropped: the WorkspaceSession is freed with its pending
\* table, its ChildStdin and its Child handle.
session_drop(s) ==
  /\ sess[s].child \in {"exited", "killed"}
  /\ ~Held(s)
  /\ sess' = [sess EXCEPT ![s] = NoSession]
  /\ UNCHANGED <<workspaces, sessions, sessLock, task, env, file>>

\* --------------------------------------------------------- remove_workspace
\* workspaces.remove(&id); write_workspaces(..)?
remove_workspace(t, w) ==
  /\ task[t].pc = "idle"
  /\ workspaces' = workspaces \ {w}
  /\ \E stored \in BOOLEAN :
       task' = [task EXCEPT ![t] =
                  IF stored
                  THEN [NoTask EXCEPT !.pc = "rm_sessions", !.cmd = "remove_workspace",
                                      !.w = w]
                  ELSE NoTask]
  /\ UNCHANGED <<sessions, sessLock, sess, env, file>>

\* if let Some(session) = state.sessions.lock().await.remove(&id)
remove_workspace_sessions(t) ==
  LET w == task[t].w IN
  /\ task[t].pc = "rm_sessions"
  /\ sessLock = Nobody
  /\ IF sessions[w] = 0
     THEN /\ task' = [task EXCEPT ![t] = NoTask]
          /\ UNCHANGED <<sessions, sessLock>>
     ELSE /\ sessions' = [sessions EXCEPT ![w] = 0]
          /\ sessLock' = t
          /\ task' = [task EXCEPT ![t].pc = "rm_kill", ![t].s = sessions[w]]
  /\ UNCHANGED <<workspaces, sess, env, file>>

\* let mut child = session.child.lock().await; let _ = child.kill().await;
remove_workspace_kill(t) ==
  LET s == task[t].s IN
  /\ task[t].pc = "rm_kill"
  /\ sess' = [sess EXCEPT ![s] = [Kill(@) EXCEPT !.closed = TRUE]]
  /\ sessLock' = Nobody
  /\ task' = [task EXCEPT ![t] = NoTask]
  /\ UNCHANGED <<workspaces, sessions, env, file>>

\* ------------------------------------- start_thread and the other requests
\* The model's cap on the messages of one session.
Headroom(w) == IF sessions[w] = 0 THEN TRUE ELSE sess[sessions[w]].nmsg < MaxMsgs

\* let sessions = state.sessions.lock().await;
SessionsFree == sessLock = Nobody

\* let session = sessions.get(&workspace_id).ok_or("workspace not connected")?;
\* session.send_request("thread/start", params): the guard `sessions` lives
\* until the command returns.
SessionsGuard(t, s) == IF s = 0 THEN Nobody ELSE t

start_thread(t, w) ==
  LET s == sessions[w] IN
  /\ task[t].pc = "idle"
  /\ SessionsFree
  /\ Headroom(w)
  /\ sessLock' = SessionsGuard(t, s)
  /\ IF s = 0
     THEN UNCHANGED <<task, sess>>
     ELSE /\ sess' = [sess EXCEPT ![s] = BeginRequest(@)]
          /\ task' = [task EXCEPT ![t] =
                        [NoTask EXCEPT !.pc = "sr_insert", !.cmd = "start_thread",
                                       !.w = w, !.s = s, !.call = "send_request",
                                       !.id = sess[s].next_id,
                                       !.msg = sess[s].nmsg + 1]]
  /\ UNCHANGED <<workspaces, sessions, env, file>>

\* session.send_response(request_id, result) under the sessions guard.
respond_to_server_request(t, w) ==
  LET s == sessions[w] IN
  /\ task[t].pc = "idle"
  /\ SessionsFree
  /\ Headroom(w)
  /\ sessLock' = SessionsGuard(t, s)
  /\ IF s = 0
     THEN UNCHANGED <<task, sess>>
     ELSE /\ sess' = [sess EXCEPT ![s] = BeginWrite(@)]
          /\ task' = [task EXCEPT ![t] =
                        [NoTask EXCEPT !.pc = "wm_write",
                                       !.cmd = "respond_to_server_request",
                                       !.w = w, !.s = s, !.call = "send_response",
                                       !.id = 1, !.msg = sess[s].nmsg + 1]]
  /\ UNCHANGED <<workspaces, sessions, env, file>>

\* ----------------------------------------- direct calls on a shared session
call_send_request(t) ==
  /\ task[t].pc = "idle"
  /\ sess[1].nmsg < MaxCalls
  /\ sess' = [sess EXCEPT ![1] = BeginRequest(@)]
  /\ task' = [task EXCEPT ![t] =
                [NoTask EXCEPT !.pc = "sr_insert", !.cmd = "session", !.s = 1,
                               !.call = "send_request", !.id = sess[1].next_id,
                               !.msg = sess[1].nmsg + 1]]
  /\ UNCHANGED <<workspaces, sessions, sessLock, env, file>>

call_write(t, call) ==
  /\ task[t].pc = "idle"
  /\ sess[1].nmsg < MaxCalls
  /\ sess' = [sess EXCEPT ![1] = BeginWrite(@)]
  /\ task' = [task EXCEPT ![t] =
                [NoTask EXCEPT !.pc = "wm_write", !.cmd = "session", !.s = 1,
                               !.call = call, !.id = IF call = "send_response" THEN 1 ELSE 0,
                               !.msg = sess[1].nmsg + 1]]
  /\ UNCHANGED <<workspaces, sessions, sessLock, env, file>>

call_send_notification(t) == call_write(t, "send_notification")
call_send_response(t) == call_write(t, "send_response")

\* ------------------------------------------------------------ file policy
\* enum FileScope, enum FileKind
FileScopes == {"Workspace", "Global"}
FileKinds == {"Agents", "Config", "ClaudeJson"}

AGENTS_FILENAME == "CLAUDE.md"
CONFIG_FILENAME == "settings.json"

\* Ok(FilePolicy { .. })
FilePolicy(filename, root_context, root_may_be_missing, create_root, external) ==
  [ok |-> TRUE, err |-> "none", filename |-> filename, root_context |-> root_context,
   root_may_be_missing |-> root_may_be_missing, create_root |-> create_root,
   allow_external_symlink_target |-> external]

\* Err(message)
PolicyErr(message) ==
  [ok |-> FALSE, err |-> message, filename |-> "none", root_context |-> "none",
   root_may_be_missing |-> FALSE, create_root |-> FALSE,
   allow_external_symlink_target |-> FALSE]

\* A policy_for that lets settings.json through for the workspace scope.
policy_for_WorkspaceConfig(scope, kind) ==
  IF kind = "Agents"
  THEN IF scope = "Workspace"
       THEN FilePolicy(AGENTS_FILENAME, "workspace root", FALSE, FALSE, FALSE)
       ELSE FilePolicy(AGENTS_FILENAME, "CLAUDE_HOME", TRUE, TRUE, TRUE)
  ELSE IF kind = "Config"
  THEN FilePolicy(CONFIG_FILENAME, "CLAUDE_HOME", TRUE, TRUE, FALSE)
  ELSE IF scope = "Global"
  THEN FilePolicy(".claude.json", "HOME", FALSE, FALSE, FALSE)
  ELSE PolicyErr(".claude.json is only supported for global scope")

\* A policy_for whose global CLAUDE.md policy is as strict as the workspace's.
policy_for_StrictGlobalAgents(scope, kind) ==
  CASE scope = "Workspace" /\ kind = "Agents" ->
         FilePolicy(AGENTS_FILENAME, "workspace root", FALSE, FALSE, FALSE)
    [] scope = "Global" /\ kind = "Agents" ->
         FilePolicy(AGENTS_FILENAME, "CLAUDE_HOME", FALSE, FALSE, FALSE)
    [] scope = "Global" /\ kind = "Config" ->
         FilePolicy(CONFIG_FILENAME, "CLAUDE_HOME", TRUE, TRUE, FALSE)
    [] scope = "Global" /\ kind = "ClaudeJson" ->
         FilePolicy(".claude.json", "HOME", FALSE, FALSE, FALSE)
    [] scope = "Workspace" /\ kind = "ClaudeJson" ->
         PolicyErr(".claude.json is only supported for global scope")
    [] scope = "Workspace" /\ kind = "Config" ->
         PolicyErr("settings.json is only supported for global scope")

\* match (scope, kind) { .. }
policy_for(scope, kind) ==
  CASE scope = "Workspace" /\ kind = "Agents" ->
         FilePolicy(AGENTS_FILENAME, "workspace root", FALSE, FALSE, FALSE)
    [] scope = "Global" /\ kind = "Agents" ->
         FilePolicy(AGENTS_FILENAME, "CLAUDE_HOME", TRUE, TRUE, TRUE)
    [] scope = "Global" /\ kind = "Config" ->
         FilePolicy(CONFIG_FILENAME, "CLAUDE_HOME", TRUE, TRUE, FALSE)
    [] scope = "Global" /\ kind = "ClaudeJson" ->
         FilePolicy(".claude.json", "HOME", FALSE, FALSE, FALSE)
    [] scope = "Workspace" /\ kind = "ClaudeJson" ->
         PolicyErr(".claude.json is only supported for global scope")
    [] scope = "Workspace" /\ kind = "Config" ->
         PolicyErr("settings.json is only supported for global scope")

\* ------------------------------------------------------- file_read_core etc.
\* The values an environment variable may have: unset, white space, a path.
HomeValues == {"unset", " ", "/home/u"}
ProfileValues == {"unset", "/users/u"}
\* What claude_code::home::resolve_default_claude_home() finds.
ClaudeHomes == {"none", "/home/u/.claude"}
\* The workspace_id arguments: None, a stored workspace, an unknown id.
WorkspaceIds == {"none", "w1", "w0"}

Envs ==
  [HOME : HomeValues, USERPROFILE : ProfileValues, claude_home : ClaudeHomes,
   codex : {Working}, PATH : {[var |-> "unicode", text |-> <<"/usr/bin">>]},
   codex_bin : {[some |-> FALSE, text |-> <<>>]}]

\* A machine with a home directory and a working codex binary.
DefaultEnv ==
  [HOME |-> "/home/u", USERPROFILE |-> "unset", claude_home |-> "/home/u/.claude",
   codex |-> Working, PATH |-> [var |-> "unicode", text |-> <<"/usr/bin">>],
   codex_bin |-> [some |-> FALSE, text |-> <<>>]]

\* env::var(name) is Ok and !value.trim().is_empty()
Usable(value) == value # "unset" /\ value # " "

Ok(value) == [ok |-> TRUE, v |-> value]
Err(message) == [ok |-> FALSE, v |-> message]

resolve_default_claude_home ==
  IF env.claude_home # "none" THEN Ok(env.claude_home)
  ELSE Err("Unable to resolve CLAUDE_HOME")

resolve_user_home ==
  IF Usable(env.HOME) THEN Ok(env.HOME)
  ELSE IF Usable(env.USERPROFILE) THEN Ok(env.USERPROFILE)
  ELSE Err("Unable to resolve user home directory")

\* PathBuf::from(&entry.path) of the stored workspace
resolve_workspace_root(workspace_id) ==
  IF workspace_id \in workspaces THEN Ok(<<"path", workspace_id>>)
  ELSE Err("workspace not found")

resolve_root_core(scope, workspace_id) ==
  IF scope = "Global" THEN resolve_default_claude_home
  ELSE IF workspace_id = "none" THEN Err("workspaceId is required")
  ELSE resolve_workspace_root(workspace_id)

NoFile ==
  [pc |-> "idle", op |-> "none", scope |-> "none", kind |-> "none",
   workspace_id |-> "none", policy |-> PolicyErr("none"), root |-> Err("none"),
   res |-> "none"]

\* A file command that resolves its root whatever policy_for has returned.
file_core_policy_RootFirst(op, scope, kind, workspace_id) ==
  /\ file.pc \in {"idle", "done"}
  /\ file' = [NoFile EXCEPT !.pc = "root", !.op = op, !.scope = scope, !.kind = kind,
                            !.workspace_id = workspace_id,
                            !.policy = policy_for(scope, kind)]
  /\ UNCHANGED <<workspaces, sessions, sessLock, sess, task, env>>

\* file_read_core / file_write_core is called: let policy = policy_for(scope, kind)?
file_core_policy(op, scope, kind, workspace_id) ==
  LET policy == policy_for(scope, kind)
      call == [NoFile EXCEPT !.op = op, !.scope = scope, !.kind = kind,
                             !.workspace_id = workspace_id, !.policy = policy]
  IN
  /\ file.pc \in {"idle", "done"}
  /\ file' = IF policy.ok THEN [call EXCEPT !.pc = "root"]
             ELSE [call EXCEPT !.pc = "done", !.res = policy.err]
  /\ UNCHANGED <<workspaces, sessions, sessLock, sess, task, env>>

\* let root = if kind == FileKind::ClaudeJson { resolve_user_home()? }
\*            else { resolve_root_core(workspaces, scope, workspace_id).await? }
file_core_root ==
  LET root == IF file.kind = "ClaudeJson" THEN resolve_user_home
              ELSE resolve_root_core(file.scope, file.workspace_id)
  IN
  /\ file.pc = "root"
  /\ file' = IF root.ok THEN [file EXCEPT !.pc = "op", !.root = root]
             ELSE [file EXCEPT !.pc = "done", !.root = root, !.res = root.v]
  /\ UNCHANGED <<workspaces, sessions, sessLock, sess, task, env>>

\* read_with_policy(&root, policy) / write_with_policy(&root, policy, &content)
file_core_op ==
  /\ file.pc = "op"
  /\ \E res \in {"ok", "err_io"} : file' = [file EXCEPT !.pc = "done", !.res = res]
  /\ UNCHANGED <<workspaces, sessions, sessLock, sess, task, env>>

\* ---------------------------------------------------------- specifications
\* AppState::load: the stored workspaces, no session.
Init ==
  /\ workspaces = Workspaces
  /\ sessions = [w \in EntryIds |-> 0]
  /\ sessLock = Nobody
  /\ sess = [s \in Slots |-> NoSession]
  /\ task = [t \in Tasks |-> NoTask]
  /\ env = DefaultEnv
  /\ file = NoFile

SessionStep ==
  \/ \E t \in Tasks : send_request_insert(t)
  \/ \E t \in Tasks : write_message(t)
  \/ \E t \in Tasks : send_request_await(t)
  \/ \E s \in Sess : reader_step(s)

ChildStep ==
  \/ \E s \in Sess : ChildPrint(s)
  \/ \E s \in Sess : ChildExit(s)
  \/ \E s \in Sess : ChildCloseStdin(s)

CommandStep ==
  \/ \E t \in Tasks : spawn_workspace_session(t)
  \/ \E t \in Tasks : initialize_timeout(t)
  \/ \E t \in Tasks : spawn_timeout_kill(t)
  \/ \E t \in Tasks : connect_workspace_insert(t)
  \/ \E t \in Tasks : remove_workspace_sessions(t)
  \/ \E t \in Tasks : remove_workspace_kill(t)
  \/ \E s \in Sess : session_drop(s)

Invoke ==
  \/ \E t \in Tasks, w \in Workspaces : connect_workspace(t, w)
  \/ \E t \in Tasks, w \in Workspaces : remove_workspace(t, w)
  \/ \E t \in Tasks, w \in Workspaces : start_thread(t, w)
  \/ \E t \in Tasks, w \in Workspaces : respond_to_server_request(t, w)

Next == Invoke \/ CommandStep \/ SessionStep \/ ChildStep

Spec == Init /\ [][Next]_vars

\* The steps of task t that the runtime schedules once they can run.
TaskStep(t) ==
  \/ send_request_insert(t)
  \/ write_message(t)
  \/ send_request_await(t)
  \/ spawn_workspace_session(t)
  \/ initialize_timeout(t)
  \/ spawn_timeout_kill(t)
  \/ connect_workspace_insert(t)
  \/ remove_workspace_sessions(t)
  \/ remove_workspace_kill(t)

Fairness ==
  /\ \A t \in Tasks : WF_vars(TaskStep(t))
  /\ \A s \in Slots : WF_vars(reader_step(s))
  /\ \A s \in Slots : WF_vars(session_drop(s))

FairSpec == Spec /\ Fairness

\* One session as constructed by spawn_workspace_session, shared by the
\* tasks.
SessionInit ==
  /\ workspaces = Workspaces
  /\ sessions = [w \in EntryIds |-> 0]
  /\ sessLock = Nobody
  /\ sess = [s \in Slots |-> IF s = 1 THEN NewSession("w1") ELSE NoSession]
  /\ task = [t \in Tasks |-> NoTask]
  /\ env = DefaultEnv
  /\ file = NoFile

SessionCall ==
  \/ \E t \in Tasks : call_send_request(t)
  \/ \E t \in Tasks : call_send_notification(t)
  \/ \E t \in Tasks : call_send_response(t)

SessionChild ==
  \/ \E s \in Sess : ChildPrint(s)
  \/ \E s \in Sess : ChildExit(s)

SessionNext == SessionCall \/ SessionStep \/ SessionChild

SessionSpec == SessionInit /\ [][SessionNext]_vars

SessionTaskStep(t) ==
  \/ send_request_insert(t)
  \/ write_message(t)
  \/ send_request_await(t)

FairSessionSpec ==
  /\ SessionSpec
  /\ \A t \in Tasks : WF_vars(SessionTaskStep(t))
  /\ \A s \in Slots : WF_vars(reader_step(s))

\* connect_workspace on a machine where `codex --version` does any of the
\* things it can do.
ProbeInit ==
  /\ workspaces = Workspaces
  /\ sessions = [w \in EntryIds |-> 0]
  /\ sessLock = Nobody
  /\ sess = [s \in Slots |-> NoSession]
  /\ task = [t \in Tasks |-> NoTask]
  /\ env \in [HOME : {"/home/u"}, USERPROFILE : {"unset"},
               claude_home : {"/home/u/.claude"}, codex : Installations,
               PATH : {DefaultEnv.PATH}, codex_bin : {DefaultEnv.codex_bin}]
  /\ file = NoFile

ProbeNext ==
  \/ \E t \in Tasks, w \in Workspaces : connect_workspace(t, w)
  \/ \E t \in Tasks : spawn_workspace_session(t)
  \/ \E t \in Tasks : send_request_insert(t)
  \/ \E t \in Tasks : write_message(t)
  \/ \E t \in Tasks : initialize_timeout(t)
  \/ \E t \in Tasks : spawn_timeout_kill(t)
  \/ \E s \in Sess : reader_step(s)
  \/ \E s \in Sess : session_drop(s)

ProbeSpec == ProbeInit /\ [][ProbeNext]_vars

\* connect_workspace under any value of PATH and HOME and any codex_bin of
\* the stored entry.
PathInit ==
  /\ workspaces = Workspaces
  /\ sessions = [w \in EntryIds |-> 0]
  /\ sessLock = Nobody
  /\ sess = [s \in Slots |-> NoSession]
  /\ task = [t \in Tasks |-> NoTask]
  /\ env \in [HOME : {"unset", " ", "/home/u", "/home:u"}, USERPROFILE : {"unset"},
               claude_home : {"/home/u/.claude"}, codex : {Working},
               PATH : PathValues, codex_bin : CodexBins]
  /\ file = NoFile

PathSpec == PathInit /\ [][ProbeNext]_vars

\* The registry commands add_workspace, connect_workspace and
\* remove_workspace over every id, with room for a second session and with
\* children that answer the requests they receive.
RegistryInvoke ==
  \/ \E t \in Tasks : add_workspace(t)
  \/ \E t \in Tasks, w \in EntryIds : connect_workspace(t, w)
  \/ \E t \in Tasks, w \in EntryIds : remove_workspace(t, w)

RegistryStep ==
  \/ \E t \in Tasks : add_workspace_store(t)
  \/ \E t \in Tasks : add_workspace_insert(t)
  \/ \E s \in Sess : ChildReply(s)
  \/ \E s \in Sess : ChildExit(s)

RegistryNext == RegistryInvoke \/ RegistryStep \/ CommandStep \/ SessionStep

RegistryInit ==
  /\ workspaces = Workspaces
  /\ sessions = [w \in EntryIds |-> 0]
  /\ sessLock = Nobody
  /\ sess = [s \in 1..(MaxSessions + 1) |-> NoSession]
  /\ task = [t \in Tasks |-> NoTask]
  /\ env = DefaultEnv
  /\ file = NoFile

RegistrySpec == RegistryInit /\ [][RegistryNext]_vars

\* The reader of one session against requests in flight and a child that
\* prints any JSON object.
ReaderNext ==
  \/ \E t \in Tasks : call_send_request(t)
  \/ SessionStep
  \/ \E s \in Sess : ChildPrintJson(s)
  \/ \E s \in Sess : ChildExit(s)

ReaderSpec == SessionInit /\ [][ReaderNext]_vars

\* One session shared by the tasks, its child answering the requests it
\* receives.
ReplyNext ==
  \/ SessionCall
  \/ SessionStep
  \/ \E s \in Sess : ChildReply(s)
  \/ \E s \in Sess : ChildExit(s)

ReplySpec == SessionInit /\ [][ReplyNext]_vars

\* The file commands of shared/files_core.rs, in any environment and with
\* the workspace stored or not.
FilesInit ==
  /\ workspaces \in SUBSET Workspaces
  /\ sessions = [w \in EntryIds |-> 0]
  /\ sessLock = Nobody
  /\ sess = [s \in Slots |-> NoSession]
  /\ task = [t \in Tasks |-> NoTask]
  /\ env \in Envs
  /\ file = NoFile

file_read_core ==
  \E scope \in FileScopes : \E kind \in FileKinds : \E workspace_id \in WorkspaceIds :
    file_core_policy("read", scope, kind, workspace_id)

file_write_core ==
  \E scope \in FileScopes : \E kind \in FileKinds : \E workspace_id \in WorkspaceIds :
    file_core_policy("write", scope, kind, workspace_id)

FilesNext ==
  \/ file_read_core
  \/ file_write_core
  \/ file_core_root
  \/ file_core_op

FilesSpec == FilesInit /\ [][FilesNext]_vars

\* ------------------------------------------------------------- properties
\* Task t is suspended in send_request on session s awaiting the reply to id.
Awaiting(t, s, id) ==
  /\ task[t].pc = "sr_await" /\ task[t].call = "send_request"
  /\ task[t].s = s /\ task[t].id = id

Registered(s) == \E w \in EntryIds : sessions[w] = s

\* C1: among send_request calls in flight together on one session, a call
\* that returns a reply returns the reply carrying the id it allocated, and
\* no reply line is returned to two calls.
C1_NoCrossDelivery ==
  \A s \in Sess : \A a \in sess[s].returned :
    a.res = "ok" =>
      /\ a.vid = a.id
      /\ \A b \in sess[s].returned : (b.res = "ok" /\ b.ln = a.ln) => b = a

\* The later of two requests in flight together has returned its own reply
\* while the earlier one is still suspended.
C1_Witness ==
  \E t \in Tasks : \E a \in sess[1].returned :
    /\ Awaiting(t, 1, task[t].id)
    /\ task[t].id \in sess[1].pending
    /\ a.res = "ok" /\ a.id > task[t].id /\ a.vid = a.id

\* C2: once the child's stdout is closed, every send_request call suspended
\* on that session eventually returns the 'request canceled' error.
C2_ClosedStdoutCancels ==
  \A t \in Tasks : \A s \in Slots : \A id \in Ids :
    (Awaiting(t, s, id) /\ id \in sess[s].pending /\ StdoutClosed(sess[s]))
      ~> (\E a \in sess[s].returned : a.id = id /\ a.res = "err_canceled")

\* C3: once remove_workspace has begun tearing down a workspace, every
\* send_request call suspended on that workspace's session eventually stops
\* waiting.
C3_TeardownReleasesCallers ==
  \A t \in Tasks : \A u \in Tasks : \A s \in Slots : \A id \in Ids :
    (/\ Awaiting(t, s, id)
     /\ task[u].cmd = "remove_workspace"
     /\ task[u].w = sess[s].entry)
      ~> ~Awaiting(t, s, id)

\* C4: an id is in a session's pending table only while the send_request
\* call that inserted it is still in progress.
C4_PendingOnlyWhileSuspended ==
  \A s \in Sess : \A id \in sess[s].pending : RxAlive(s, id)

\* C5: when the initialize handshake times out, the session is never in the
\* registry, and once spawn has returned the timeout error the child has been
\* killed.
C5_TimeoutKillsAndNeverRegisters ==
  /\ \A t \in Tasks : task[t].pc = "hs_kill" => ~Registered(task[t].s)
  /\ \A s \in Sess :
       sess[s].outcome = "err_timeout" =>
         /\ sess[s].child \in {"killed", "exited"}
         /\ ~Registered(s)

\* Spawn returned the timeout error for a child that was still running when
\* the bound elapsed.
C5_Witness ==
  \E s \in Sess : sess[s].outcome = "err_timeout" /\ sess[s].child = "killed"

\* C6: whenever spawn_workspace_session has returned an error after the child
\* was spawned, the child is no longer running and the session is not in the
\* registry.
C6_FailedHandshakeKillsChild ==
  \A s \in Sess :
    sess[s].outcome \in {"err_write", "err_canceled", "err_timeout", "err_initialized"}
      => sess[s].child # "running" /\ ~Registered(s)

\* C7: a session whose initialize request was answered by a reply with an
\* "error" member never becomes Ready and is never sent the 'initialized'
\* notification.
C7_ErrorReplyFailsHandshake ==
  \A s \in Sess :
    (\E a \in sess[s].returned : a.id = 1 /\ a.res = "ok" /\ a.r = "error") =>
      /\ sess[s].outcome # "ready"
      /\ \A i \in 1..Len(sess[s].wire) : sess[s].wire[i].kind # "send_notification"

\* C8: while one command is suspended awaiting a reply, another command can
\* look the same session up and start its own message.
C8_LookupWhileAwaiting ==
  \A t \in Tasks : \A u \in Tasks : \A s \in Sess :
    (/\ t # u
     /\ task[t].cmd = "start_thread" /\ Awaiting(t, s, task[t].id)
     /\ task[u].pc = "idle"
     /\ sess[s].nmsg < MaxMsgs)
      => ENABLED respond_to_server_request(u, sess[s].entry)

\* The messages on the wire w are whole: each head is followed by the tail
\* of the same message.
WholeMessages(w) ==
  /\ Len(w) % 2 = 0
  /\ \A i \in 1..Len(w) :
       IF i % 2 = 1
       THEN w[i].part = "head"
       ELSE w[i].part = "tail" /\ w[i].n = w[i - 1].n

\* The complete lines on the wire w.
LinesOnWire(w) ==
  {w[i].n : i \in {j \in 2..Len(w) :
                     /\ w[j].part = "tail" /\ w[j - 1].part = "head"
                     /\ w[j - 1].n = w[j].n}}

\* A write_message call has put part of its line on the wire of s.
Writing(s) ==
  \E t \in Tasks : task[t].s = s /\ task[t].pc = "wm_write" /\ task[t].off > 0

\* C9 as stated: whenever no write is under way, the wire is a concatenation
\* of whole lines and its lines are the messages whose write succeeded.
C9_WholeLines ==
  \A s \in Sess :
    ~Writing(s) =>
      /\ WholeMessages(sess[s].wire)
      /\ LinesOnWire(sess[s].wire) = sess[s].written

\* C9: the wire is a concatenation of whole lines followed by at most the
\* leading part of one more message, whose write is under way or has failed;
\* no writer's bytes lie inside another writer's message, and the lines on
\* the wire are the messages whose write succeeded.
C9_WholeLinesThenFragment ==
  \A s \in Sess :
    LET w == sess[s].wire
        n == Len(w)
    IN
    /\ WholeMessages(IF n % 2 = 1 THEN SubSeq(w, 1, n - 1) ELSE w)
    /\ n % 2 = 1 => w[n].part = "head"
    /\ LinesOnWire(w) = sess[s].written

\* Two calls were in flight together: the one that began second took the
\* stdin mutex first, and both lines are whole on the wire.
C9_Witness ==
  /\ Len(sess[1].wire) = 4
  /\ sess[1].wire[1].n = 2 /\ sess[1].wire[3].n = 1
  /\ sess[1].wire[1].kind # sess[1].wire[3].kind
  /\ sess[1].written = {1, 2}

\* Request id is pending with its caller suspended and its reply is the next
\* line the reader takes.
ReplyInFlight(s, id) ==
  /\ id \in sess[s].pending
  /\ \E t \in Tasks : Awaiting(t, s, id)
  /\ sess[s].outq # <<>>
  /\ Head(sess[s].outq).id = id /\ Head(sess[s].outq).r # "none"

\* send_request returned the reply carrying id to the caller that allocated id.
Done(s, id) ==
  \E a \in sess[s].returned : a.id = id /\ a.res = "ok" /\ a.vid = id

\* Every send_request call made on s so far has returned a reply.
AllReplied(s) ==
  /\ \A t \in Tasks : ~(task[t].s = s /\ task[t].call = "send_request")
  /\ \A a \in sess[s].returned : a.res = "ok"

\* C10: whatever the order in which the replies to the pending requests
\* arrive, each suspended caller eventually returns the reply with its own
\* id, no answered id remains in the pending table, and the table is empty
\* once every request has been answered.
C10_AnyOrderCompletes ==
  /\ [](\A s \in Sess :
          /\ \A a \in sess[s].returned :
               a.res = "ok" => a.vid = a.id /\ a.id \notin sess[s].pending
          /\ AllReplied(s) => sess[s].pending = {})
  /\ \A s \in Slots : \A id \in Ids :
       ReplyInFlight(s, id) ~> (Done(s, id) /\ id \notin sess[s].pending)

\* Two requests were answered in the reverse of the order they were sent,
\* both callers have their own reply and the pending table is empty.
C10_Witness ==
  /\ sess[1].pending = {}
  /\ \E a \in sess[1].returned : \E b \in sess[1].returned :
       /\ a.res = "ok" /\ b.res = "ok"
       /\ a.id < b.id /\ b.ln < a.ln
       /\ a.vid = a.id /\ b.vid = b.id

\* The reader of s takes the line at the head of the pipe in this step.
ReaderTakes(s) ==
  /\ sess[s].outq # <<>>
  /\ sess'[s].outq # sess[s].outq

\* C11: a line with a numeric id and a method but neither result nor error
\* is emitted as one app-server event and leaves the pending table and every
\* one-shot channel as they were, whatever its id.
C11_ServerRequestIsEvent ==
  [][\A s \in Sess :
       LET v == Head(sess[s].outq) IN
       (ReaderTakes(s) /\ v.k = "json" /\ v.idk = "u64" /\ v.m /\ v.r = "none") =>
         /\ sess'[s].pending = sess[s].pending
         /\ sess'[s].chan = sess[s].chan
         /\ sess'[s].events =
              Append(sess[s].events, [kind |-> "message", ln |-> v.ln, id |-> v.id])]_vars

\* A server request carrying id 1 was emitted as an event while the client
\* request with id 1 is still pending with its caller suspended.
C11_Witness ==
  \E s \in Sess : \E t \in Tasks : \E i \in 1..Len(sess[s].events) :
    /\ sess[s].events[i].kind = "message" /\ sess[s].events[i].id = 1
    /\ 1 \in sess[s].pending
    /\ Awaiting(t, s, 1)

\* C12: a non-blank line that is not valid JSON produces exactly one
\* codex/parseError event carrying the line, leaves the pending table
\* unchanged and leaves the reader running.
C12_BadLineIsOneParseError ==
  [][\A s \in Sess :
       LET v == Head(sess[s].outq) IN
       (ReaderTakes(s) /\ v.k \notin {"json", "blank"}) =>
         /\ sess'[s].pending = sess[s].pending
         /\ sess'[s].events =
              Append(sess[s].events, [kind |-> "parseError", ln |-> v.ln, id |-> NoId])
         /\ sess'[s].reader = "running"]_vars

\* Task t is inside a send_request call on session s.
InRequest(t, s) ==
  /\ task[t].s = s /\ task[t].call = "send_request"
  /\ task[t].pc \in {"sr_insert", "wm_write", "sr_await"}

\* The ids in use on s are distinct, lie below the counter, and none is the
\* id of a request that has returned.
IdsDistinct(s) ==
  /\ \A t \in Tasks : InRequest(t, s) => 1 <= task[t].id /\ task[t].id < sess[s].next_id
  /\ \A t \in Tasks : \A u \in Tasks :
       (t # u /\ InRequest(t, s) /\ InRequest(u, s)) => task[t].id # task[u].id
  /\ \A a \in sess[s].returned :
       /\ 1 <= a.id /\ a.id < sess[s].next_id
       /\ \A t \in Tasks : InRequest(t, s) => task[t].id # a.id

\* A step that moves the counter of a live session moves it up by one and
\* starts a send_request call holding the value the counter had.
IdsIncrease(s) ==
  (sess'[s].next_id # sess[s].next_id /\ sess'[s].child # "none") =>
    /\ sess'[s].next_id = sess[s].next_id + 1
    /\ \E t \in Tasks :
         /\ ~InRequest(t, s)
         /\ task'[t].s = s /\ task'[t].call = "send_request"
         /\ task'[t].pc = "sr_insert"
         /\ task'[t].id = sess[s].next_id

\* C13: within one session request ids are never reused: calls in progress
\* hold distinct ids, no call holds the id of a request that has returned,
\* and ids are handed out as 1, 2, 3, .. in the order the calls begin.
C13_IdsNeverReused ==
  /\ [](\A s \in Sess : IdsDistinct(s))
  /\ [][\A s \in Sess : IdsIncrease(s)]_vars

\* Request 1 has returned its reply and a later call holds id 2.
C13_Witness ==
  \E t \in Tasks :
    /\ InRequest(t, 1) /\ task[t].id = 2
    /\ \E a \in sess[1].returned : a.id = 1 /\ a.res = "ok"

\* C14: once remove_workspace has returned for a session's workspace, no
\* further app-server event of that session is emitted.
C14_NoEventAfterClose ==
  [][\A s \in Sess :
       (sess[s].closed /\ sess'[s].closed) => sess'[s].events = sess[s].events]_vars

\* The line v makes the reader emit an event: a parse error, a notification
\* or a server request.
ProducesEvent(v) ==
  \/ v.k = "garbage"
  \/ v.k = "json" /\ v.m /\ v.r = "none"

\* The events of s that come from its stdout are in the order of their lines,
\* at most one for a line.
EventsInLineOrder(s) ==
  \A i \in 1..Len(sess[s].events) : \A j \in 1..Len(sess[s].events) :
    (/\ i < j
     /\ sess[s].events[i].kind # "connected"
     /\ sess[s].events[j].kind # "connected")
      => sess[s].events[i].ln < sess[s].events[j].ln

C16_FullReplyReturned ==
  /\ [][\A s \in Sess :
          LET v == Head(sess[s].outq) IN
          (/\ ReaderTakes(s) /\ v.k = "json" /\ v.idk = "u64" /\ v.r # "none"
           /\ v.id \in sess[s].pending /\ RxAlive(s, v.id))
            => sess'[s].chan[v.id] = v]_vars
  /\ [][\A s \in Sess : \A id \in Ids :
          LET v == sess[s].chan[id] IN
          (v # NoMsg /\ sess'[s].chan[id] = NoMsg /\ sess'[s].child # "none") =>
            [id |-> id, res |-> "ok", ln |-> v.ln, vid |-> v.id, r |-> v.r]
              \in sess'[s].returned]_vars

\* send_request has returned Ok with a reply that carries an "error" member
\* and the caller's id.
C16_Witness ==
  \E s \in Sess : \E a \in sess[s].returned :
    a.res = "ok" /\ a.r = "error" /\ a.vid = a.id /\ a.ln > 0

\* The message an Ok return a of send_request gave its caller.
Received(a) == Reply(a.ln, a.vid, a.r)

\* The first request written on wire w after the handshake's two messages
\* is at position i.
FirstRequestAfterHandshake(w, i) ==
  /\ w[i].kind = "send_request" /\ w[i].n > 2
  /\ \A j \in 1..(i - 1) : ~(w[j].kind = "send_request" /\ w[j].n > 2)

WrittenBefore(w, n, i) ==
  \E j \in 1..(i - 1) : w[j].n = n /\ w[j].part = "tail"

\* C20: on a session's wire the first message is the initialize request; the
\* initialized notification is written only after initialize was answered;
\* codex/connected is emitted only after the initialized notification was
\* written; a session is in the registry only once Ready, so no command's
\* message is written before the initialized notification; and the reader
\* is started before anything is written.
C20_HandshakeOrder ==
  \A s \in Sess :
    LET w == sess[s].wire IN
    /\ w # <<>> =>
         /\ w[1].kind = "send_request" /\ w[1].id = 1 /\ w[1].n = 1
         /\ sess[s].reader \in {"running", "done"}
    /\ \A i \in 1..Len(w) :
         /\ w[i].kind = "send_notification" =>
              /\ w[i].n = 2
              /\ WrittenBefore(w, 1, i)
              /\ \E a \in sess[s].returned : a.id = 1 /\ a.res = "ok"
         /\ w[i].n > 2 => WrittenBefore(w, 2, i)
    /\ (\E i \in 1..Len(sess[s].events) : sess[s].events[i].kind = "connected")
         => 2 \in sess[s].written
    /\ Registered(s) => sess[s].outcome = "ready" /\ 2 \in sess[s].written
    /\ \A t \in Tasks :
         (task[t].s = s /\ task[t].cmd \in {"start_thread", "respond_to_server_request"})
           => 2 \in sess[s].written

\* A registered session on whose wire a command's request follows the
\* initialize request and the initialized notification, codex/connected
\* having been emitted.
C20_Witness ==
  \E s \in Sess :
    /\ Registered(s)
    /\ Len(sess[s].wire) >= 5
    /\ sess[s].wire[3].kind = "send_notification"
    /\ sess[s].wire[5].n = 3
    /\ \E i \in 1..Len(sess[s].events) : sess[s].events[i].kind = "connected"

\* A file command has evaluated policy_for on its (scope, kind).
PolicyEvaluated == file.pc # "idle"

\* C18: policy_for returns an error exactly for (Workspace, Config) and
\* (Workspace, ClaudeJson), and a policy for every other pair: the workspace
\* scope supports only Agents, the global scope all three kinds.
C18_RejectsWorkspaceConfigAndJson ==
  PolicyEvaluated =>
    /\ file.policy.ok <=> ~(file.scope = "Workspace" /\ file.kind \in {"Config", "ClaudeJson"})
    /\ file.policy.ok <=> (file.scope = "Global" \/ file.kind = "Agents")
    /\ ~file.policy.ok => file.policy.err # "none" /\ file.policy.filename = "none"
    /\ file.policy.ok => file.policy.err = "none" /\ file.policy.filename # "none"

\* A file command for (Workspace, ClaudeJson) has returned policy_for's error.
C18_Witness ==
  /\ file.pc = "done"
  /\ file.scope = "Workspace" /\ file.kind = "ClaudeJson"
  /\ ~file.policy.ok
  /\ file.res = ".claude.json is only supported for global scope"

\* C19: for every pair policy_for accepts, create_root equals
\* root_may_be_missing, both true exactly when the root context is
\* CLAUDE_HOME, which is the case for (Global, Agents) and (Global, Config);
\* allow_external_symlink_target is true only for (Global, Agents); the
\* filename is CLAUDE.md, settings.json or .claude.json by kind.
C19_PolicyFields ==
  (PolicyEvaluated /\ file.policy.ok) =>
    LET pol == file.policy IN
    /\ pol.create_root = pol.root_may_be_missing
    /\ pol.create_root <=> pol.root_context = "CLAUDE_HOME"
    /\ pol.root_context = "CLAUDE_HOME" <=>
         (file.scope = "Global" /\ file.kind \in {"Agents", "Config"})
    /\ file.scope = "Workspace" => pol.root_context = "workspace root"
    /\ file.kind = "ClaudeJson" => pol.root_context = "HOME"
    /\ pol.allow_external_symlink_target <=>
         (file.scope = "Global" /\ file.kind = "Agents")
    /\ pol.filename = CASE file.kind = "Agents" -> "CLAUDE.md"
                         [] file.kind = "Config" -> "settings.json"
                         [] file.kind = "ClaudeJson" -> ".claude.json"

\* A file command for (Global, Agents) holds the policy that creates its
\* root and lets the file be a symlink to a target outside it.
C19_Witness ==
  /\ file.pc = "op"
  /\ file.scope = "Global" /\ file.kind = "Agents"
  /\ file.policy.create_root /\ file.policy.allow_external_symlink_target
  /\ file.policy.filename = "CLAUDE.md"

\* The row of the reader's table a JSON line falls in.
LineClass(v) ==
  CASE maybe_id(v) # NoId /\ has_result_or_error(v) -> "reply"
    [] maybe_id(v) # NoId /\ ~has_result_or_error(v) /\ has_method(v) -> "server request"
    [] maybe_id(v) # NoId /\ ~has_result_or_error(v) /\ ~has_method(v) -> "reply fallback"
    [] maybe_id(v) = NoId /\ has_method(v) -> "notification"
    [] OTHER -> "nothing"

\* C21: for every combination of numeric id, method and result-or-error the
\* reader does what the table says: a reply (id with result or error, with
\* or without a method) and the fallback (id alone) complete the pending
\* entry of that id if there is one and emit nothing; a server request (id
\* and method) and a notification (method, no id) emit one event and leave
\* the pending table alone; any other line changes nothing.
C21_DispatchTable ==
  [][\A s \in Sess :
       LET v == Head(sess[s].outq)
           a == sess[s]
           b == sess'[s]
       IN
       (ReaderTakes(s) /\ v.k = "json") =>
         CASE LineClass(v) \in {"reply", "reply fallback"} ->
                /\ b.events = a.events
                /\ b.pending = a.pending \ {v.id}
                /\ b.chan = IF v.id \in a.pending /\ RxAlive(s, v.id)
                            THEN [a.chan EXCEPT ![v.id] = v] ELSE a.chan
           [] LineClass(v) \in {"server request", "notification"} ->
                /\ b.events = Append(a.events, [kind |-> "message", ln |-> v.ln,
                                                id |-> maybe_id(v)])
                /\ b.pending = a.pending
                /\ b.chan = a.chan
           [] OTHER ->
                /\ b.events = a.events
                /\ b.pending = a.pending
                /\ b.chan = a.chan]_vars

\* A line with an id, a method and a result has completed the pending
\* request of its id, and nothing was emitted for it.
C21_Witness ==
  \E s \in Sess : \E id \in Ids :
    /\ sess[s].last = sess[s].chan[id]
    /\ sess[s].last.idk = "u64" /\ sess[s].last.id = id
    /\ sess[s].last.m /\ sess[s].last.r = "result"
    /\ id \notin sess[s].pending
    /\ sess[s].events = <<>>

\* C22: a reply whose id is not in the pending table is dropped: the
\* session is as before but for the line being consumed, so no event is
\* emitted, the table is unchanged and no value delivered or returned is
\* altered.  A reply whose entry is in the table while its caller has given
\* up removes the entry and is discarded, the reader running on.
C22_UnmatchedReplyDropped ==
  [][\A s \in Sess :
       LET v == Head(sess[s].outq)
           a == sess[s]
           b == sess'[s]
       IN
       (ReaderTakes(s) /\ v.k = "json" /\ LineClass(v) = "reply") =>
         /\ v.id \notin a.pending =>
              b = [a EXCEPT !.outq = Tail(@), !.last = v]
         /\ (v.id \in a.pending /\ ~RxAlive(s, v.id)) =>
              b = [a EXCEPT !.outq = Tail(@), !.last = v, !.pending = @ \ {v.id}]]_vars

\* The reader has taken a second reply to an id whose first reply was
\* delivered: the caller has returned the first one and nothing was emitted.
C22_Witness ==
  \E s \in Sess : \E a \in sess[s].returned :
    /\ a.res = "ok" /\ a.vid = a.id
    /\ sess[s].last.idk = "u64" /\ sess[s].last.id = a.id
    /\ sess[s].last.r # "none"
    /\ a.ln < sess[s].last.ln
    /\ a.id \notin sess[s].pending
    /\ sess[s].events = <<>>
    /\ sess[s].reader = "running"

\* The text has a character that is not white space.
NonBlank(text) == \E i \in 1..Len(text) : text[i] # " "

\* The text without the white space at its two ends.
Stripped(text) ==
  IF NonBlank(text)
  THEN LET first == CHOOSE i \in 1..Len(text) :
                      text[i] # " " /\ \A j \in 1..(i - 1) : text[j] = " "
           last == CHOOSE i \in 1..Len(text) :
                     text[i] # " " /\ \A j \in (i + 1)..Len(text) : text[j] = " "
       IN SubSeq(text, first, last)
  ELSE <<>>

\* C23: the version probe of a connect returns the 'not found' error when
\* the binary is absent, the 'timed out' error when it does not finish in
\* time, a 'failed to start' error on an unsuccessful exit, its detail the
\* stderr text if that is not blank and the stdout text otherwise, and on
\* success the version text, None when it is empty.  When the probe has
\* failed the command has returned that error and there is no session: no
\* child was spawned, no reader started and no message written.
C23_ProbeOutcomes ==
  \A t \in Tasks :
    LET r == task[t].probe
        c == env.codex
    IN
    r # NoProbe =>
      /\ c.run = "not_found" => ~r.ok /\ r.msg = "Codex CLI not found."
      /\ c.run = "timeout" => ~r.ok /\ r.msg = "Timed out while checking Codex CLI."
      /\ (c.run = "exit" /\ ~c.success) =>
           /\ ~r.ok
           /\ r.msg \in {"Codex CLI failed to start.", "Codex CLI failed to start: {detail}."}
           /\ r.text = IF NonBlank(c.stderr) THEN Stripped(c.stderr) ELSE Stripped(c.stdout)
           /\ r.msg = "Codex CLI failed to start: {detail}." <=> r.text # <<>>
      /\ (c.run = "exit" /\ c.success) =>
           /\ r.ok
           /\ r.text = Stripped(c.stdout)
           /\ r.msg = IF NonBlank(c.stdout) THEN "Some" ELSE "None"
      /\ ~r.ok =>
           /\ task[t] = [NoTask EXCEPT !.probe = r, !.command = task[t].command]
           /\ \A s \in Sess : sess[s] = NoSession

\* A connect has returned the 'failed to start' error with the stdout text
\* as its detail, stderr holding white space only, and nothing was spawned.
C23_Witness ==
  \E t \in Tasks :
    /\ task[t].pc = "idle"
    /\ ~task[t].probe.ok
    /\ task[t].probe.msg = "Codex CLI failed to start: {detail}."
    /\ task[t].probe.text = <<"v">>
    /\ env.codex.stderr = <<" ">>
    /\ env.codex.stdout = <<" ", "v", " ">>
    /\ \A s \in Sess : sess[s] = NoSession

\* The entries of a search path: its maximal runs of pieces other than ":",
\* in their order.
Entries(text) ==
  LET starts == {i \in 1..Len(text) :
                   text[i] # ":" /\ (i = 1 \/ text[i - 1] = ":")}
      stop(i) == CHOOSE j \in i..Len(text) :
                   /\ \A k \in i..j : text[k] # ":"
                   /\ (j = Len(text) \/ text[j + 1] = ":")
      nth(n) == CHOOSE i \in starts : Cardinality({k \in starts : k < i}) = n - 1
  IN [n \in 1..Cardinality(starts) |-> SubSeq(text, nth(n), stop(nth(n)))]

\* The command of a connect was built for the default binary.
DefaultBin ==
  ~env.codex_bin.some \/ \A i \in 1..Len(env.codex_bin.text) : env.codex_bin.text[i] = " "

\* C24: with no explicit binary configured the PATH given to the child has
\* as its entries the non-empty entries of the inherited PATH in their order
\* followed by the extra directories not among them, each once and in the
\* fixed order, and augmenting that PATH again gives the same PATH; with an
\* explicit binary the child inherits PATH as it is.
C24_AugmentedPath ==
  \A t \in Tasks :
    LET command == task[t].command
        inherited == Entries(env.PATH.text)
        absent(extra) == \A i \in 1..Len(inherited) : inherited[i] # extra
    IN
    command # NoCommand =>
      IF DefaultBin
      THEN /\ command.PATH.var = "set"
           /\ Entries(command.PATH.text) =
                inherited \o SelectSeq(extra_paths(env.HOME), absent)
           /\ augmented_path([var |-> "unicode", text |-> command.PATH.text], env.HOME)
                = command.PATH.text
      ELSE command.PATH.var = "inherited"

\* C25: send_request registers its one-shot before it writes its line.  A
\* request line that has reached the child has its id in the pending table
\* until the child's reply is read; and whenever the reader takes the reply
\* of a child that answers the requests it receives, the id is in the
\* pending table, and the reply goes to its caller if the caller still
\* waits.
C25_RegisteredBeforeWritten ==
  /\ [](\A s \in Sess : \A id \in Ids :
          RequestOnWire(sess[s], id) =>
            id \in sess[s].pending \/ id \in sess[s].answered)
  /\ [][\A s \in Sess :
          LET v == Head(sess[s].outq) IN
          (ReaderTakes(s) /\ v.k = "json" /\ LineClass(v) = "reply") =>
            /\ v.id \in sess[s].pending
            /\ RxAlive(s, v.id) => sess'[s].chan[v.id] = v]_vars

\* A request was answered by the child and its caller has returned the
\* reply, a later request being in flight.
C25_Witness ==
  \E s \in Sess : \E a \in sess[s].returned :
    /\ a.res = "ok" /\ a.vid = a.id
    /\ a.id \in sess[s].answered
    /\ \E id \in sess[s].pending : id > a.id /\ RequestOnWire(sess[s], id)

\* C26: a remove_workspace that has been invoked eventually returns, with
\* the process of the session it took from the registry killed, whatever
\* requests are suspended at the time.
C26_TeardownCompletes ==
  \A u \in Tasks :
    (task[u].cmd = "remove_workspace" /\ task[u].pc = "rm_sessions")
      ~> (task[u].pc = "idle")

\* A command is still inside spawn_workspace_session for session s or holds
\* the session it returned, on its way to the registry.
BeingConnected(s) ==
  \E t \in Tasks :
    task[t].s = s /\ task[t].cmd \in {"connect_workspace", "add_workspace"}

\* C27: once the command that spawned it has returned, a session whose
\* process is alive is the one the registry holds under its workspace id:
\* a session that was replaced in the registry, or that never reached it,
\* has no live process, so no workspace id has two live processes.
C27_OneLiveProcessPerWorkspace ==
  \A s \in Sess :
    (sess[s].child = "running" /\ ~BeingConnected(s)) =>
      sessions[sess[s].entry] = s

\* C28: a workspace id under which the registry holds a session is a key
\* of the workspaces map, except while a remove_workspace for that id is
\* between its two steps.
C28_RegisteredIsStored ==
  \A w \in EntryIds :
    (sessions[w] # 0 /\ ~\E t \in Tasks : task[t].cmd = "remove_workspace" /\ task[t].w = w)
      => w \in workspaces

\* C29: when no command is running, a session the registry holds (its
\* workspace is reported connected) has a running process and a running
\* stdout reader: a session whose process has exited is not in the registry.
C29_ConnectedIsRunning ==
  \A s \in Sess :
    (Registered(s) /\ \A t \in Tasks : task[t].pc = "idle") =>
      /\ sess[s].child = "running"
      /\ sess[s].reader = "running"

\* C30: add_workspace is all or nothing.  When it returns Ok the new id is
\* a key of the workspaces map and of the registry; when it returns an
\* error the id is in neither, as before the call, and the process the call
\* spawned, if any, is not running.
C30_AddWorkspaceAllOrNothing ==
  [][\A t \in Tasks :
       (task[t].cmd = "add_workspace" /\ task'[t].pc = "idle") =>
         LET w == task[t].w
             s == task[t].s
         IN
         IF task[t].pc = "aw_insert"
         THEN w \in workspaces' /\ sessions'[w] # 0
         ELSE /\ w \notin workspaces'
              /\ sessions'[w] = 0
              /\ s # 0 => sess'[s].child # "running"]_vars

\* C31: a JSON line whose id is present but is not an unsigned integer is
\* handled as a line without id: it leaves the pending table and every
\* one-shot as they were, is emitted as one event if it has a method and
\* changes nothing otherwise; a JSON line with neither id nor method
\* changes nothing.
C31_OtherIdIsNoId ==
  [][\A s \in Sess :
       LET v == Head(sess[s].outq)
           a == sess[s]
           b == sess'[s]
       IN
       (ReaderTakes(s) /\ v.k = "json" /\ v.idk # "u64") =>
         IF v.m
         THEN b = [a EXCEPT !.outq = Tail(@), !.last = v,
                            !.events = Append(@, [kind |-> "message", ln |-> v.ln,
                                                  id |-> NoId])]
         ELSE b = [a EXCEPT !.outq = Tail(@), !.last = v]]_vars

\* The reader has taken a line with a result whose id is a value other than
\* an unsigned integer and resembles the id of a pending request: the
\* request is still pending, its caller still suspended, nothing emitted.
C31_Witness ==
  \E s \in Sess : \E t \in Tasks :
    /\ sess[s].last.idk = "other" /\ sess[s].last.r = "result"
    /\ ~sess[s].last.m
    /\ sess[s].last.id \in sess[s].pending
    /\ Awaiting(t, s, sess[s].last.id)
    /\ sess[s].chan[sess[s].last.id] = NoMsg
    /\ sess[s].events = <<>>

\* The file command has reached read_with_policy / write_with_policy.
FileTouched == file.pc = "op" \/ file.res \in {"ok", "err_io"}

\* The file command has returned an error without reaching the file.
FileUntouchedError ==
  file.pc = "done" /\ file.res \notin {"none", "ok", "err_io"}

\* C32: the file commands evaluate policy_for before they resolve a root: for
\* a rejected (scope, kind) they return the policy's error with no root
\* resolved and no file read or written, whatever the workspace id; for an
\* accepted pair the root they reach the file with is the one the policy's
\* root_context names (the stored workspace's path, CLAUDE_HOME, or the user
\* home); and with the Workspace scope and a missing or unknown workspace id
\* they return an error and never reach the file.
C32_PolicyBeforeRoot ==
  /\ (PolicyEvaluated /\ ~file.policy.ok) =>
        /\ file.pc = "done"
        /\ file.res = file.policy.err
        /\ file.root = Err("none")
        /\ ~FileTouched
  /\ file.pc \in {"root", "op"} => file.policy.ok
  /\ FileTouched =>
        /\ file.policy.ok /\ file.root.ok
        /\ file.policy.root_context = "workspace root" =>
              /\ file.scope = "Workspace" /\ file.kind = "Agents"
              /\ file.workspace_id \in workspaces
              /\ file.root.v = <<"path", file.workspace_id>>
        /\ file.policy.root_context = "CLAUDE_HOME" =>
              /\ file.scope = "Global" /\ file.kind \in {"Agents", "Config"}
              /\ env.claude_home # "none"
              /\ file.root.v = env.claude_home
        /\ file.policy.root_context = "HOME" =>
              /\ file.scope = "Global" /\ file.kind = "ClaudeJson"
              /\ file.root.v \in {env.HOME, env.USERPROFILE}
              /\ Usable(file.root.v)
        /\ file.policy.root_context \in {"workspace root", "CLAUDE_HOME", "HOME"}
  /\ (file.scope = "Workspace" /\ file.workspace_id \notin workspaces) =>
        /\ ~FileTouched
        /\ file.pc = "done" => FileUntouchedError

\* A file command for (Workspace, Config) called without a workspace id has
\* returned policy_for's error, not the missing id's, with no root resolved.
C32_Witness ==
  /\ file.pc = "done"
  /\ file.scope = "Workspace" /\ file.kind = "Config"
  /\ file.workspace_id = "none"
  /\ file.res = "settings.json is only supported for global scope"
  /\ file.root = Err("none")

====
